---- MODULE Spec2Model ----
(***************************************************************************)
(* A model of build_chm.py: the outline parser (parse_markdown and its     *)
(* line normalizers), the site renderer's file naming and file list        *)
(* (build_site), and the command line driver (main).                       *)
(*                                                                         *)
(* Text is modelled as a sequence of characters, each character a string   *)
(* token.  The non-ASCII characters of the source are written as named     *)
(* tokens: DOT_JP, DOT_CN, CATEGORY_SEP, NBSP, LEI (the category suffix),  *)
(* and WEI, FEN (the first two characters of the synthesized title).       *)
(***************************************************************************)
EXTENDS Naturals, Sequences, FiniteSets

VARIABLES
    pc,               \* position of the run: see the actions
    argv,             \* sys.argv
    cwd_md,           \* names of the *.md files of the current directory
    err_stream,       \* sys.stderr: "open", "full" (its writes fail) or "closed" (None)
    site_old,         \* files present under chm_build/site before the run
    in_path,          \* main: in_path (NoPath before it is chosen)
    lines,            \* parse_markdown: the lines read so far
    categories,       \* parse_markdown: categories (the tree)
    cur_cat,          \* parse_markdown: cur_cat, an index into categories, 0 for None
    cur_sub,          \* parse_markdown: cur_sub, <<category index, subcategory index>>
    cur_group_title,  \* parse_markdown: cur_group_title, None or a string
    cur_entries,      \* parse_markdown: cur_entries
    assigned,         \* build_site: the number of file fields assigned so far
    writes,           \* paths written by _write_text so far, in order, relative to chm_build
    files,            \* build_site: the returned list files
    manifest,         \* the [FILES] lines of project.hhp, NotWritten before write_hhp
    stderr,           \* what the run printed on standard error
    exit_code,        \* the exit code of the process, NoExit while it runs
    heap,             \* the objects created by the calls of parse_markdown, by identity
    results           \* the lists returned by the calls of parse_markdown, by identity

vars == <<pc, argv, cwd_md, err_stream, site_old, in_path, lines, categories, cur_cat, cur_sub,
          cur_group_title, cur_entries, assigned, writes, files, manifest, stderr, exit_code,
          heap, results>>

\* what only the calls of parse_markdown on a shared heap change
callVars == <<heap, results>>

parserVars == <<categories, cur_cat, cur_sub, cur_group_title, cur_entries>>

-----------------------------------------------------------------------------
(* Characters *)

DOT_JP == "DOT_JP"
DOT_CN == "DOT_CN"
CATEGORY_SEP == "SEP"
NBSP == "NBSP"
LEI == "LEI"

\* str.isspace / the regex class \s, on the characters of the model
IsSpace(c) == c \in {" ", NBSP}

\* the regex class \d
IsDigit(c) == c \in {"0", "1", "2", "3", "4", "5", "6", "7", "8", "9"}

Min(S) == CHOOSE x \in S : \A y \in S : x <= y
Max(S) == CHOOSE x \in S : \A y \in S : x >= y

\* str.strip()
Strip(s) ==
    LET keep == {i \in 1..Len(s) : ~IsSpace(s[i])}
    IN  IF keep = {} THEN <<>> ELSE SubSeq(s, Min(keep), Max(keep))

StartsWith(s, p) == Len(s) >= Len(p) /\ SubSeq(s, 1, Len(p)) = p
EndsWith(s, p) == Len(s) >= Len(p) /\ SubSeq(s, Len(s) - Len(p) + 1, Len(s)) = p
Contains(s, c) == \E i \in 1..Len(s) : s[i] = c

\* str.replace(old, new) for a one-character old
Replace(s, old, new) == [i \in 1..Len(s) |-> IF s[i] = old THEN new ELSE s[i]]

\* the length of the run of whitespace of s that starts at position a: \s*
SpaceRun(s, a) ==
    LET stop == {i \in a..Len(s) : ~IsSpace(s[i])}
    IN  IF stop = {} THEN Len(s) + 1 - a ELSE Min(stop) - a

\* the length of the run of digits of s that starts at position a: \d*
DigitRun(s, a) ==
    LET stop == {i \in a..Len(s) : ~IsDigit(s[i])}
    IN  IF stop = {} THEN Len(s) + 1 - a ELSE Min(stop) - a

-----------------------------------------------------------------------------
(* Line Normalizer *)

\* line 43 replacing DOT_JP by a question mark, after the question marks are gone
_normalize_group_title_LeavesQuestionMark(title) ==
    Strip(Replace(Replace(Replace(title, "?", DOT_CN), DOT_JP, "?"), NBSP, " "))

_normalize_group_title(title) ==
    Strip(Replace(Replace(Replace(title, DOT_JP, DOT_CN), "?", DOT_CN), NBSP, " "))

\* s[i..] matches \s*\d+\s*$
TailMatches(s, i) ==
    LET d == i + SpaceRun(s, i)
        e == d + DigitRun(s, d)
    IN  /\ e > d
        /\ e + SpaceRun(s, e) = Len(s) + 1

\* re.sub(r"\s*\d+\s*$", "", s): the leftmost match is removed; it ends the string
SubTrailingNumber(s) ==
    LET at == {i \in 1..Len(s) : TailMatches(s, i)}
    IN  IF at = {} THEN s ELSE SubSeq(s, 1, Min(at) - 1)

_normalize_entry(line) ==
    LET s == Strip(line)
    IN  IF s = <<>> THEN <<>>
        ELSE IF StartsWith(s, <<"*", "*", "*">>) THEN <<>>
        ELSE IF StartsWith(s, <<"=", "=">>) /\ EndsWith(s, <<"=", "=">>) THEN <<>>
        ELSE Strip(SubTrailingNumber(s))

-----------------------------------------------------------------------------
(* The patterns of lines 14-17, each on an already stripped string *)

\* BOLD_RE = ^\*\*(.+)\*\*$
BOLD_RE(line) ==
    /\ Len(line) >= 5
    /\ StartsWith(line, <<"*", "*">>)
    /\ EndsWith(line, <<"*", "*">>)

\* m.group(1) of BOLD_RE
BoldGroup1(line) == SubSeq(line, 3, Len(line) - 2)

\* PAGE_BOLD_NUM_RE = ^\d+$
PAGE_BOLD_NUM_RE(title) == Len(title) >= 1 /\ DigitRun(title, 1) = Len(title)

\* re.match(r"^\d+\s+", title)
NumericHeading(title) ==
    LET d == DigitRun(title, 1)
    IN  d >= 1 /\ SpaceRun(title, d + 1) >= 1

\* SUBCATEGORY_RE = ^(\d+)\.\s*(.+)$
SUBCATEGORY_RE(title) ==
    LET d == DigitRun(title, 1)
    IN  d >= 1 /\ Len(title) >= d + 2 /\ title[d + 1] = "."

\* sm.group(1): the leading digits
SubGroup1(title) == SubSeq(title, 1, DigitRun(title, 1))

\* sm.group(2): what follows the dot and the whitespace after it; \s* is greedy
\* but gives back one character when nothing else is left for (.+)
SubGroup2(title) ==
    LET d == DigitRun(title, 1)
        w == SpaceRun(title, d + 2)
    IN  IF d + 2 + w <= Len(title) THEN SubSeq(title, d + 2 + w, Len(title))
        ELSE SubSeq(title, Len(title), Len(title))

ScreenshotPrefix ==
    <<"=", "=", "S", "c", "r", "e", "e", "n", "s", "h", "o", "t", " ",
      "f", "o", "r", " ", "p", "a", "g", "e">>

\* SCREENSHOT_RE = ^==Screenshot for page\s*\d+==\s*$
SCREENSHOT_RE(line) ==
    /\ StartsWith(line, ScreenshotPrefix)
    /\ LET a == Len(ScreenshotPrefix) + 1
           d == a + SpaceRun(line, a)
           e == d + DigitRun(line, d)
       IN  /\ e > d
           /\ Len(line) >= e + 1
           /\ line[e] = "=" /\ line[e + 1] = "="
           /\ e + 2 + SpaceRun(line, e + 2) = Len(line) + 1

\* line 100 without the test for CATEGORY_SEP
CategoryHeading_SuffixOnly(title) ==
    /\ EndsWith(title, <<LEI>>)
    /\ ~SUBCATEGORY_RE(title)

\* title.endswith("LEI") and CATEGORY_SEP in title and not subcategory-shaped
CategoryHeading(title) ==
    /\ Contains(title, CATEGORY_SEP)
    /\ EndsWith(title, <<LEI>>)
    /\ ~SUBCATEGORY_RE(title)

-----------------------------------------------------------------------------
(* Data model, lines 20-38 *)

None == <<"None">>     \* cur_group_title = None; no string of the model equals it
NoSub == <<0, 0>>      \* cur_sub = None

Group(title, entries) == [title |-> title, entries |-> entries, file |-> <<>>]
Subcategory(title) == [title |-> title, groups |-> <<>>, file |-> <<>>]
Category(title) == [title |-> title, subcategories |-> <<>>, file |-> <<>>]

\* the title of the implicit category of line 113
Unclassified == <<"WEI", "FEN", LEI>>

\* the truth value Python gives cur_group_title: None and "" are both false
Truthy(t) == t # None /\ t # <<>>

-----------------------------------------------------------------------------
(* Outline Parser *)

\* the locals of parse_markdown after lines 66-70
ParserInit ==
    [categories |-> <<>>, cur_cat |-> 0, cur_sub |-> NoSub,
     cur_group_title |-> None, cur_entries |-> <<>>]

\* flush_group without line 79: the entries stay for the next group
flush_group_KeepsEntries(st) ==
    LET ci == st.cur_sub[1]
        si == st.cur_sub[2]
        g  == Group(_normalize_group_title(st.cur_group_title), st.cur_entries)
    IN  [st EXCEPT
            !.categories =
                IF Truthy(st.cur_group_title) /\ st.cur_sub # NoSub
                THEN [@ EXCEPT ![ci].subcategories[si].groups = Append(@, g)]
                ELSE @,
            !.cur_group_title = None]

flush_group(st) ==
    LET ci == st.cur_sub[1]
        si == st.cur_sub[2]
        g  == Group(_normalize_group_title(st.cur_group_title), st.cur_entries)
    IN  [st EXCEPT
            !.categories =
                IF Truthy(st.cur_group_title) /\ st.cur_sub # NoSub
                THEN [@ EXCEPT ![ci].subcategories[si].groups = Append(@, g)]
                ELSE @,
            !.cur_group_title = None,
            !.cur_entries = <<>>]

\* the numeric heading skipped without the flush of line 96
DropHeading_Skip(st) == st

\* lines 94-97: a top-level numeric heading is dropped
DropHeading(st) == flush_group(st)

\* lines 99-105 without line 104: the subcategory stays current
NewCategory_KeepsSubcategory(st, title) ==
    LET f == flush_group(st)
    IN  [f EXCEPT !.categories = Append(@, Category(title)),
                  !.cur_cat = Len(f.categories) + 1]

\* lines 99-105
NewCategory(st, title) ==
    LET f == flush_group(st)
    IN  [f EXCEPT !.categories = Append(@, Category(title)),
                  !.cur_cat = Len(f.categories) + 1,
                  !.cur_sub = NoSub]

\* lines 107-117 without the implicit category: the heading is lost
NewSubcategory_NeedsCategory(st, title) ==
    LET f  == flush_group(st)
        t  == SubGroup1(title) \o <<".", " ">> \o Strip(SubGroup2(title))
        ci == f.cur_cat
    IN  IF ci = 0 THEN f
        ELSE [f EXCEPT !.categories[ci].subcategories = Append(@, Subcategory(t)),
                       !.cur_sub = <<ci, Len(f.categories[ci].subcategories) + 1>>]

\* lines 107-117 storing the title as written in the source
NewSubcategory_KeepsSourceTitle(st, title) ==
    LET f  == flush_group(st)
        c  == IF f.cur_cat = 0
              THEN [f EXCEPT !.categories = Append(@, Category(Unclassified)),
                             !.cur_cat = Len(f.categories) + 1]
              ELSE f
        ci == c.cur_cat
    IN  [c EXCEPT !.categories[ci].subcategories = Append(@, Subcategory(title)),
                  !.cur_sub = <<ci, Len(c.categories[ci].subcategories) + 1>>]

\* lines 107-117 with the flush of line 110 after the new subcategory is current
NewSubcategory_FlushesLate(st, title) ==
    LET c  == IF st.cur_cat = 0
              THEN [st EXCEPT !.categories = Append(@, Category(Unclassified)),
                              !.cur_cat = Len(st.categories) + 1]
              ELSE st
        t  == SubGroup1(title) \o <<".", " ">> \o Strip(SubGroup2(title))
        ci == c.cur_cat
    IN  flush_group([c EXCEPT !.categories[ci].subcategories = Append(@, Subcategory(t)),
                              !.cur_sub = <<ci, Len(c.categories[ci].subcategories) + 1>>])

\* lines 107-117
NewSubcategory(st, title) ==
    LET f  == flush_group(st)
        c  == IF f.cur_cat = 0
              THEN [f EXCEPT !.categories = Append(@, Category(Unclassified)),
                             !.cur_cat = Len(f.categories) + 1]
              ELSE f
        t  == SubGroup1(title) \o <<".", " ">> \o Strip(SubGroup2(title))
        ci == c.cur_cat
    IN  [c EXCEPT !.categories[ci].subcategories = Append(@, Subcategory(t)),
                  !.cur_sub = <<ci, Len(c.categories[ci].subcategories) + 1>>]

\* lines 119-122
NewGroupHeading(st, title) == [flush_group(st) EXCEPT !.cur_group_title = title]

\* lines 124-127 storing the line as read
EntryLine_Unnormalized(st, line) ==
    IF Truthy(st.cur_group_title) /\ _normalize_entry(line) # <<>>
    THEN [st EXCEPT !.cur_entries = Append(@, line)]
    ELSE st

\* lines 124-127 without the test of line 124
EntryLine_AlwaysAppends(st, line) ==
    IF _normalize_entry(line) # <<>>
    THEN [st EXCEPT !.cur_entries = Append(@, _normalize_entry(line))]
    ELSE st

\* lines 124-127
EntryLine(st, line) ==
    IF Truthy(st.cur_group_title) /\ _normalize_entry(line) # <<>>
    THEN [st EXCEPT !.cur_entries = Append(@, _normalize_entry(line))]
    ELSE st

\* lines 88-122 with a flush at the page number of line 92
BoldLine_PageNumFlushes(st, line) ==
    LET title == Strip(BoldGroup1(line))
    IN  IF PAGE_BOLD_NUM_RE(title) THEN flush_group(st)
        ELSE IF NumericHeading(title) /\ ~SUBCATEGORY_RE(title) THEN DropHeading(st)
        ELSE IF CategoryHeading(title) THEN NewCategory(st, title)
        ELSE IF SUBCATEGORY_RE(title) THEN NewSubcategory(st, title)
        ELSE NewGroupHeading(st, title)

\* lines 88-122 with the category rule of line 100 tried before the numeric
\* heading rule of line 95
BoldLine_CategoryFirst(st, line) ==
    LET title == Strip(BoldGroup1(line))
    IN  IF PAGE_BOLD_NUM_RE(title) THEN st
        ELSE IF CategoryHeading(title) THEN NewCategory(st, title)
        ELSE IF NumericHeading(title) /\ ~SUBCATEGORY_RE(title) THEN DropHeading(st)
        ELSE IF SUBCATEGORY_RE(title) THEN NewSubcategory(st, title)
        ELSE NewGroupHeading(st, title)

\* lines 88-122, for a line BOLD_RE matches
BoldLine(st, line) ==
    LET title == Strip(BoldGroup1(line))
    IN  IF PAGE_BOLD_NUM_RE(title) THEN st
        ELSE IF NumericHeading(title) /\ ~SUBCATEGORY_RE(title) THEN DropHeading(st)
        ELSE IF CategoryHeading(title) THEN NewCategory(st, title)
        ELSE IF SUBCATEGORY_RE(title) THEN NewSubcategory(st, title)
        ELSE NewGroupHeading(st, title)

\* one turn of the loop of lines 81-127
ParseLine(st, raw) ==
    LET line == Strip(raw)
    IN  IF line = <<>> THEN st
        ELSE IF SCREENSHOT_RE(line) THEN st
        ELSE IF BOLD_RE(line) THEN BoldLine(st, line)
        ELSE EntryLine(st, line)

RECURSIVE ParseLines(_, _, _, _)
\* the loop of lines 81-127 over text[a..b], from state st; the range is halved
\* to keep the evaluation shallow, the lines are still taken in order
ParseLines(st, text, a, b) ==
    IF a > b THEN st
    ELSE IF a = b THEN ParseLine(st, text[a])
    ELSE LET mid == (a + b) \div 2
             half == ParseLines(st, text, a, mid)
         IN  IF half.cur_cat >= 0 THEN ParseLines(half, text, mid + 1, b) ELSE half

\* parse_markdown, on the lines of the file: the loop, then the flush of line 129
ParseAll(text) == flush_group(ParseLines(ParserInit, text, 1, Len(text)))

parse_markdown(text) == ParseAll(text).categories

-----------------------------------------------------------------------------
(* Site Renderer: file names and the file list, lines 138-153 and 240-246 *)

DigitChars == <<"0", "1", "2", "3", "4", "5", "6", "7", "8", "9">>

RECURSIVE Decimal(_)
Decimal(n) ==
    IF n < 10 THEN <<DigitChars[n + 1]>>
    ELSE Decimal(n \div 10) \o <<DigitChars[(n % 10) + 1]>>

RECURSIVE Zeros(_)
Zeros(k) == IF k = 0 THEN <<>> ELSE <<"0">> \o Zeros(k - 1)

\* format(n, "0{w}d"): at least w digits, zero filled
Pad(n, w) ==
    LET d == Decimal(n)
    IN  IF Len(d) >= w THEN d ELSE Zeros(w - Len(d)) \o d

DotHtml == <<".", "h", "t", "m", "l">>

\* line 144
CatFile(ci) == <<"c">> \o Pad(ci, 2) \o DotHtml

\* line 146
SubFile(ci, si) == <<"c">> \o Pad(ci, 2) \o <<"_", "s">> \o Pad(si, 2) \o DotHtml

\* line 153
GroupFile(id) == <<"g">> \o Pad(id, 4) \o DotHtml

RECURSIVE SumRange(_, _, _)
\* f[a] + ... + f[b]
SumRange(f, a, b) ==
    IF a > b THEN 0
    ELSE IF a = b THEN f[a]
    ELSE LET mid == (a + b) \div 2
         IN  SumRange(f, a, mid) + SumRange(f, mid + 1, b)

SumTo(f, n) == SumRange(f, 1, n)

\* the number of groups of a category
CatGroups(cat) ==
    SumTo([j \in 1..Len(cat.subcategories) |-> Len(cat.subcategories[j].groups)],
          Len(cat.subcategories))

\* a counter that starts again in every subcategory
GroupId_PerSubcategory(cats, ci, si, gi) == gi

\* lines 148-153: the value of group_id when group gi of subcategory si of category ci
\* is named; one counter runs over the whole tree
GroupId(cats, ci, si, gi) ==
    SumTo([i \in 1..(ci - 1) |-> CatGroups(cats[i])], ci - 1)
    + SumTo([j \in 1..(si - 1) |-> Len(cats[ci].subcategories[j].groups)], si - 1)
    + gi

\* lines 142-153: the tree with every file field set
AssignFiles(cats) ==
    [ci \in 1..Len(cats) |->
        [title |-> cats[ci].title,
         file |-> CatFile(ci),
         subcategories |->
            [si \in 1..Len(cats[ci].subcategories) |->
                LET sub == cats[ci].subcategories[si]
                IN  [title |-> sub.title,
                     file |-> SubFile(ci, si),
                     groups |->
                        [gi \in 1..Len(sub.groups) |->
                            [title |-> sub.groups[gi].title,
                             entries |-> sub.groups[gi].entries,
                             file |-> GroupFile(GroupId(cats, ci, si, gi))]]]]]]

RECURSIVE ConcatRange(_, _, _)
\* f[a] \o ... \o f[b]
ConcatRange(f, a, b) ==
    IF a > b THEN <<>>
    ELSE IF a = b THEN f[a]
    ELSE LET mid == (a + b) \div 2
         IN  ConcatRange(f, a, mid) \o ConcatRange(f, mid + 1, b)

Concat(f, n) == ConcatRange(f, 1, n)

\* the nodes in the order lines 143-146 name them: <<ci, 0, 0>> is category ci,
\* <<ci, si, 0>> its subcategory si
CategoryOrder(cats) ==
    Concat([ci \in 1..Len(cats) |->
               << <<ci, 0, 0>> >>
               \o [si \in 1..Len(cats[ci].subcategories) |-> <<ci, si, 0>>]],
           Len(cats))

\* the groups in the order lines 149-153 name them
GroupOrder(cats) ==
    Concat([ci \in 1..Len(cats) |->
               Concat([si \in 1..Len(cats[ci].subcategories) |->
                          [gi \in 1..Len(cats[ci].subcategories[si].groups) |->
                              <<ci, si, gi>>]],
                      Len(cats[ci].subcategories))],
           Len(cats))

NamingOrder(cats) == CategoryOrder(cats) \o GroupOrder(cats)

SiteDir == <<"s", "i", "t", "e">>
SitePath(name) == SiteDir \o <<"/">> \o name

\* the paths _write_text is called with in build_site, in order (lines 166, 198,
\* 214, 229, 238), relative to out_dir
SiteWrites(cats) ==
    LET subW(cat, sub) ==
            <<SitePath(sub.file)>>
            \o [gi \in 1..Len(sub.groups) |-> SitePath(sub.groups[gi].file)]
        catW(cat) ==
            <<SitePath(cat.file)>>
            \o Concat([si \in 1..Len(cat.subcategories) |->
                          subW(cat, cat.subcategories[si])],
                      Len(cat.subcategories))
    IN  <<SitePath(<<"s", "t", "y", "l", "e", ".", "c", "s", "s">>), SitePath(<<"i", "n", "d", "e", "x", ".", "h", "t", "m", "l">>)>>
        \o Concat([ci \in 1..Len(cats) |-> catW(cats[ci])], Len(cats))

Range(f) == {f[i] : i \in DOMAIN f}

\* the code point order of the characters of file names
CharOrder ==
    <<".", "/", "0", "1", "2", "3", "4", "5", "6", "7", "8", "9", "_",
      "a", "b", "c", "d", "e", "f", "g", "h", "i", "j", "k", "l", "m",
      "n", "o", "p", "q", "r", "s", "t", "u", "v", "w", "x", "y", "z">>

Code(c) == CHOOSE i \in 1..Len(CharOrder) : CharOrder[i] = c

\* the order of sorted() on paths of one directory
LexLess(a, b) ==
    LET n == IF Len(a) < Len(b) THEN Len(a) ELSE Len(b)
        diff == {i \in 1..n : a[i] # b[i]}
    IN  IF diff = {} THEN Len(a) < Len(b)
        ELSE Code(a[Min(diff)]) < Code(b[Min(diff)])

\* sorted(S): the element at position i has i - 1 elements below it
Sorted(S) ==
    LET ranked == {<<Cardinality({y \in S : LexLess(y, x)}), x>> : x \in S}
    IN  [i \in 1..Cardinality(S) |-> (CHOOSE p \in ranked : p[1] = i - 1)[2]]

\* path.relative_to(out_dir).as_posix().replace("/", "\\")
Rel(path) == Replace(path, "/", "\\")

\* lines 240-246: every file found under site_dir after the writes, sorted
CollectFiles(old, written) ==
    LET found == Sorted(old \cup written)
    IN  [i \in 1..Len(found) |-> Rel(found[i])]

-----------------------------------------------------------------------------
(* Help-Project Emitter, lines 249-301 *)

ContentsHhc == <<"c", "o", "n", "t", "e", "n", "t", "s", ".", "h", "h", "c">>
ProjectHhp == <<"p", "r", "o", "j", "e", "c", "t", ".", "h", "h", "p">>

\* lines 288-300: the lines of project.hhp; each fixed line is one token
HhpContent(fs) ==
    << <<"[OPTIONS]">>, <<"Compatibility=1.1">>, <<"Compiled file=output.chm">>,
       <<"Contents file=contents.hhc">>, <<"Default topic=site\\index.html">>,
       <<"Display compile progress=No">>, <<"Full-text search=Yes">>,
       <<"Language=0x804 Chinese (PRC)">>, <<"Title">>, <<>>, <<"[FILES]">> >> \o fs

\* the lines of a written project.hhp that follow [FILES]
FilesSection(m) == SubSeq(m, Len(HhpContent(<<>>)) + 1, Len(m))

-----------------------------------------------------------------------------
(* Inputs *)

MaxLines == 5        \* lines read in the line-by-line specification
MaxMainLines == 3    \* lines of an input file of a whole run
BigCount == 101      \* headings of the long input files

L_CAT == <<"*", "*", "b", CATEGORY_SEP, "a", LEI, "*", "*">>
L_SUB == <<"*", "*", "1", ".", " ", "a", "*", "*">>
L_GRP == <<"*", "*", "g", "?", "*", "*">>
L_EMPTY == <<"*", "*", " ", "*", "*">>
L_ENT == <<"a", " ", "3">>
L_ENT2 == <<"b", " ", "1", " ", "2">>
L_SHOT == <<"=", "=", "S", "c", "r", "e", "e", "n", "s", "h", "o", "t", " ", "f", "o", "r", " ", "p", "a", "g", "e", " ", "5", "=", "=">>
L_NUM == <<"*", "*", "4", "2", "*", "*">>
L_DROP == <<"*", "*", "1", "0", " ", "a", "*", "*">>

\* the lines an input of the line-by-line specification is made of
Lines == {L_CAT, L_SUB, L_GRP, L_EMPTY, L_ENT, L_ENT2, L_SHOT, L_NUM, L_DROP}

\* the lines a short input file of a whole run is made of
MainLines == {L_CAT, L_SUB, L_GRP, L_ENT}

SeqsUpTo(S, n) == UNION {[1..k -> S] : k \in 0..n}

\* long files: BigCount categories of one subcategory and one group each, and one
\* category of BigCount subcategories of one group each
BigInputs ==
    { Concat([i \in 1..BigCount |-> <<L_CAT, L_SUB, L_GRP>>], BigCount),
      <<L_CAT>> \o Concat([i \in 1..BigCount |-> <<L_SUB, L_GRP>>], BigCount) }

Inputs == SeqsUpTo(MainLines, MaxMainLines) \cup BigInputs

Prog == <<"build_chm.py">>
FileA == <<"a", ".", "m", "d">>
FileB == <<"b", ".", "m", "d">>
FileX == <<"x", ".", "m", "d">>
OldPage == SitePath(<<"o", "l", "d", ".", "h", "t", "m", "l">>)

\* standard error of the process: a stream that takes what is written, a
\* stream whose writes fail (a full device), or none (the descriptor is closed
\* and sys.stderr is None)
ErrStreams == {"open", "full", "closed"}

NoExit == <<>>
NoMdMessage == "No .md file found in current directory."
Traceback == "Traceback (most recent call last)"
ExceptionIgnored ==
    "Exception ignored in: <_io.TextIOWrapper name='<stdout>' mode='w' encoding='utf-8'>"

-----------------------------------------------------------------------------
(* The run *)

Init ==
    /\ pc = "start"
    /\ argv \in {<<Prog>>, <<Prog, FileA>>, <<Prog, FileX>>}
    /\ cwd_md \in SUBSET {FileA, FileB}
    /\ err_stream \in ErrStreams
    /\ site_old \in {{}, {OldPage}}
    /\ in_path = None
    /\ lines = <<>>
    /\ categories = ParserInit.categories
    /\ cur_cat = ParserInit.cur_cat
    /\ cur_sub = ParserInit.cur_sub
    /\ cur_group_title = ParserInit.cur_group_title
    /\ cur_entries = ParserInit.cur_entries
    /\ writes = <<>>
    /\ files = <<>>
    /\ manifest = <<>>
    /\ stderr = <<>>
    /\ exit_code = NoExit
    /\ assigned = 0
    /\ heap = <<>>
    /\ results = <<>>

\* parse_markdown has been entered on a readable file: lines 62-70
InitParse ==
    /\ pc = "parsing"
    /\ argv = <<Prog, FileA>>
    /\ cwd_md = {FileA}
    /\ err_stream = "open"
    /\ site_old = {}
    /\ in_path = FileA
    /\ lines = <<>>
    /\ categories = ParserInit.categories
    /\ cur_cat = ParserInit.cur_cat
    /\ cur_sub = ParserInit.cur_sub
    /\ cur_group_title = ParserInit.cur_group_title
    /\ cur_entries = ParserInit.cur_entries
    /\ writes = <<>>
    /\ files = <<>>
    /\ manifest = <<>>
    /\ stderr = <<>>
    /\ exit_code = NoExit
    /\ assigned = 0
    /\ heap = <<>>
    /\ results = <<>>

ParserState ==
    [categories |-> categories, cur_cat |-> cur_cat, cur_sub |-> cur_sub,
     cur_group_title |-> cur_group_title, cur_entries |-> cur_entries]

SetParserState(st) ==
    /\ categories' = st.categories
    /\ cur_cat' = st.cur_cat
    /\ cur_sub' = st.cur_sub
    /\ cur_group_title' = st.cur_group_title
    /\ cur_entries' = st.cur_entries

\* what reaches standard error when the text is written to sys.stderr
Report(text) ==
    stderr' = IF err_stream = "open" THEN stderr \o text ELSE stderr

\* the exit codes of a process that ends with an uncaught exception: when the
\* writes of standard error fail, the flush at the end of the process can fail
\* too (exit code 120)
AbortCodes == IF err_stream = "full" THEN {<<1>>, <<120>>} ELSE {<<1>>}

\* the exit codes of a process whose main prints line 311 and returns the code
\* given.  The print goes to standard error, and to standard output when
\* sys.stderr is None; when the stream it goes to fails, the print raises
\* (exit code 1) or the flush at the end of the process fails (exit code 120)
ReturnCodes(code) ==
    CASE err_stream = "open" -> {code}
      [] err_stream = "full" -> {<<1>>, <<120>>}
      [] err_stream = "closed" -> {code, <<1>>, <<120>>}

\* an uncaught exception ends the process with exit code 1 and a traceback
Abort ==
    /\ Report(<<Traceback>>)
    /\ exit_code' \in AbortCodes
    /\ pc' = "exit"

\* main, lines 304-313, returning 1 where line 312 returns 2
Start_ReturnsOne ==
    /\ pc = "start"
    /\ IF Len(argv) >= 2
       THEN /\ in_path' = argv[2]
            /\ pc' = "parse"
            /\ UNCHANGED <<stderr, exit_code>>
       ELSE IF cwd_md = {}
       THEN /\ Report(<<NoMdMessage>>)
            /\ exit_code' \in ReturnCodes(<<1>>)
            /\ pc' = "exit"
            /\ UNCHANGED in_path
       ELSE /\ in_path' = Sorted(cwd_md)[1]
            /\ pc' = "parse"
            /\ UNCHANGED <<stderr, exit_code>>
    /\ UNCHANGED <<callVars, assigned, argv, cwd_md, err_stream, site_old, lines, parserVars,
                   writes, files, manifest>>

\* main, lines 304-313.  The print of line 311 goes to standard error when it
\* is open and to standard output when sys.stderr is None; when the writes of
\* standard error fail nothing is reported, and standard output can fail too
Start ==
    /\ pc = "start"
    /\ IF Len(argv) >= 2
       THEN /\ in_path' = argv[2]
            /\ pc' = "parse"
            /\ UNCHANGED <<stderr, exit_code>>
       ELSE IF cwd_md = {}
       THEN /\ Report(<<NoMdMessage>>)
            /\ exit_code' \in ReturnCodes(<<2>>)
            /\ pc' = "exit"
            /\ UNCHANGED in_path
       ELSE /\ in_path' = Sorted(cwd_md)[1]
            /\ pc' = "parse"
            /\ UNCHANGED <<stderr, exit_code>>
    /\ UNCHANGED <<callVars, assigned, argv, cwd_md, err_stream, site_old, lines, parserVars,
                   writes, files, manifest>>

\* line 316 with lines 62-130: the whole parse of a file that can be read
Parse ==
    /\ pc = "parse"
    /\ in_path \in cwd_md
    /\ \E text \in Inputs :
          /\ lines' = text
          /\ SetParserState(ParseAll(text))
    /\ pc' = "build"
    /\ UNCHANGED <<callVars, assigned, argv, cwd_md, err_stream, site_old, in_path, writes, files, manifest, stderr,
                   exit_code>>

\* line 63: path.read_text raises: the file does not exist, or it is a
\* directory, cannot be opened or is not UTF-8
ParseFail ==
    /\ pc = "parse"
    /\ Abort
    /\ UNCHANGED <<callVars, assigned, argv, cwd_md, err_stream, site_old, in_path, lines, parserVars, writes, files,
                   manifest>>

\* one turn of the loop of lines 81-127, on the next line of the file
ReadLine(L, max) ==
    /\ pc = "parsing"
    /\ Len(lines) < max
    /\ \E raw \in L :
          /\ lines' = Append(lines, raw)
          /\ SetParserState(ParseLine(ParserState, raw))
    /\ UNCHANGED <<pc, callVars, assigned, argv, cwd_md, err_stream, site_old, in_path, writes, files, manifest, stderr,
                   exit_code>>

\* the end of the file without the flush of line 129
EndOfInput_NoFlush ==
    /\ pc = "parsing"
    /\ pc' = "parsed"
    /\ UNCHANGED <<callVars, assigned, argv, cwd_md, err_stream, site_old, in_path, lines, parserVars, writes, files,
                   manifest, stderr, exit_code>>

\* lines 129-130: the end of the file
EndOfInput ==
    /\ pc = "parsing"
    /\ SetParserState(flush_group(ParserState))
    /\ pc' = "parsed"
    /\ UNCHANGED <<callVars, assigned, argv, cwd_md, err_stream, site_old, in_path, lines, writes, files, manifest,
                   stderr, exit_code>>

\* line 317 with lines 138-246
BuildSite ==
    /\ pc = "build"
    /\ LET named == AssignFiles(categories)
           written == SiteWrites(named)
       IN  /\ categories' = named
           /\ assigned' = Len(NamingOrder(named))
           /\ writes' = writes \o written
           /\ files' = CollectFiles(site_old, Range(written))
    /\ pc' = "hhc"
    /\ UNCHANGED <<callVars, argv, cwd_md, err_stream, site_old, in_path, lines, cur_cat, cur_sub,
                   cur_group_title, cur_entries, manifest, stderr, exit_code>>

\* site_dir.mkdir of line 140 raises: no node is named and nothing is written
MakeSiteDirFail ==
    /\ pc = "build"
    /\ assigned = 0
    /\ writes = <<>>
    /\ Abort
    /\ UNCHANGED <<callVars, assigned, argv, cwd_md, err_stream, site_old, in_path, lines, parserVars,
                   writes, files, manifest>>

\* a write of build_site raises (lines 133-135): the nodes are named and the
\* writes before it are done
SiteWriteFail ==
    /\ pc = "build"
    /\ LET named == AssignFiles(categories)
           written == SiteWrites(named)
       IN  /\ categories' = named
           /\ assigned' = Len(NamingOrder(named))
           /\ \E k \in 0..(Len(written) - 1) :
                 writes' = writes \o SubSeq(written, 1, k)
    /\ Abort
    /\ UNCHANGED <<callVars, argv, cwd_md, err_stream, site_old, in_path, lines, cur_cat, cur_sub,
                   cur_group_title, cur_entries, files, manifest>>

\* the listing of line 242 raises: the nodes are named, every file of the site
\* is written and no list is returned
SiteCollectFail ==
    /\ pc = "build"
    /\ LET named == AssignFiles(categories)
           written == SiteWrites(named)
       IN  /\ categories' = named
           /\ assigned' = Len(NamingOrder(named))
           /\ writes' = writes \o written
    /\ Abort
    /\ UNCHANGED <<callVars, argv, cwd_md, err_stream, site_old, in_path, lines, cur_cat, cur_sub,
                   cur_group_title, cur_entries, files, manifest>>

\* build_site raises: at line 140, at one of its writes, or at line 242
BuildSiteFail ==
    \/ MakeSiteDirFail
    \/ SiteWriteFail
    \/ SiteCollectFail

\* line 321 with lines 249-284
WriteHhc ==
    /\ pc = "hhc"
    /\ writes' = Append(writes, ContentsHhc)
    /\ pc' = "hhp"
    /\ UNCHANGED <<callVars, assigned, argv, cwd_md, err_stream, site_old, in_path, lines, parserVars, files, manifest,
                   stderr, exit_code>>

\* the write of contents.hhc raises: an IO error, or the encoding of line 320
WriteHhcFail ==
    /\ pc = "hhc"
    /\ Abort
    /\ UNCHANGED <<callVars, assigned, argv, cwd_md, err_stream, site_old, in_path, lines, parserVars, writes, files,
                   manifest>>

\* line 322 with lines 287-301
WriteHhp ==
    /\ pc = "hhp"
    /\ manifest' = HhpContent(files)
    /\ writes' = Append(writes, ProjectHhp)
    /\ pc' = "summary"
    /\ UNCHANGED <<callVars, assigned, argv, cwd_md, err_stream, site_old, in_path, lines, parserVars, files, stderr,
                   exit_code>>

WriteHhpFail ==
    /\ pc = "hhp"
    /\ Abort
    /\ UNCHANGED <<callVars, assigned, argv, cwd_md, err_stream, site_old, in_path, lines, parserVars, writes, files,
                   manifest>>

\* lines 324-328: the summary is printed and main returns 0
Finish ==
    /\ pc = "summary"
    /\ exit_code' = <<0>>
    /\ pc' = "exit"
    /\ UNCHANGED <<callVars, assigned, argv, cwd_md, err_stream, site_old, in_path, lines, parserVars, writes, files,
                   manifest, stderr>>

\* lines 324-328 with standard output failing.  A print of lines 325-327
\* raises and nothing stays in the buffer; or no print raises, main returns 0
\* and the flush of standard output at the end of the process fails (exit code
\* 120, no traceback); or a print raises while an earlier one is still in the
\* buffer, and the flush fails after the traceback (exit code 120)
FinishFail ==
    /\ pc = "summary"
    /\ \/ Abort
       \/ /\ Report(<<ExceptionIgnored>>)
          /\ exit_code' = <<120>>
          /\ pc' = "exit"
       \/ /\ Report(<<Traceback, ExceptionIgnored>>)
          /\ exit_code' = <<120>>
          /\ pc' = "exit"
    /\ UNCHANGED <<callVars, assigned, argv, cwd_md, err_stream, site_old, in_path, lines,
                   parserVars, writes, files, manifest>>

Next ==
    \/ Start
    \/ Parse
    \/ ParseFail
    \/ BuildSite
    \/ BuildSiteFail
    \/ WriteHhc
    \/ WriteHhcFail
    \/ WriteHhp
    \/ WriteHhpFail
    \/ Finish
    \/ FinishFail

\* a whole run of main
Spec == Init /\ [][Next]_vars

ReadAnyLine == ReadLine(Lines, MaxLines)

NextParse ==
    \/ ReadAnyLine
    \/ EndOfInput

\* parse_markdown, line by line
SpecParse == InitParse /\ [][NextParse]_vars

\* the lines that can follow the lines read so far in a file made of a context
\* of Cs, then one line of Hs, then a tail of Ts
NextLines(read, Cs, Hs, Ts) ==
    LET n == Len(read)
    IN  {c[n + 1] : c \in {c \in Cs : Len(c) > n /\ SubSeq(c, 1, n) = read}}
        \cup (IF read \in Cs THEN Hs ELSE {})
        \cup UNION {{q[n - Len(c)] : q \in {q \in Ts :
                        /\ Len(q) >= n - Len(c)
                        /\ SubSeq(read, Len(c) + 2, n) = SubSeq(q, 1, n - Len(c) - 1)}} :
                    c \in {c \in Cs : /\ n > Len(c)
                                      /\ SubSeq(read, 1, Len(c)) = c
                                      /\ read[Len(c) + 1] \in Hs}}

\* one turn of the loop of lines 81-127, on the next line of such a file
ReadFileLine(Cs, Hs, Ts) ==
    /\ pc = "parsing"
    /\ \E raw \in NextLines(lines, Cs, Hs, Ts) :
          /\ lines' = Append(lines, raw)
          /\ SetParserState(ParseLine(ParserState, raw))
    /\ UNCHANGED <<pc, callVars, assigned, argv, cwd_md, err_stream, site_old, in_path, writes, files, manifest, stderr,
                   exit_code>>

\* the bold line of a title
Bold(x) == <<"*", "*">> \o x \o <<"*", "*">>

MaxTitleLen == 3     \* characters between the asterisks of a group heading

\* the characters _normalize_group_title treats, a space and a letter
TitleAlphabet == {DOT_JP, DOT_CN, "?", NBSP, " ", "a"}

TitleStrings == SeqsUpTo(TitleAlphabet, MaxTitleLen)

\* the group headings of the titles
TitleLines == {Bold(x) : x \in TitleStrings}

\* the files read: one subcategory heading and one group heading
ReadTitleLine == ReadFileLine({<<L_SUB>>}, TitleLines, {<<>>})

NextTitles ==
    \/ ReadTitleLine
    \/ EndOfInput

\* parse_markdown, line by line, on the files of one group heading
SpecTitles == InitParse /\ [][NextTitles]_vars

MaxHeadingLen == 4   \* characters between the asterisks of a heading

\* the characters the heading rules of lines 91-108 look at, and a letter
HeadingAlphabet == {"1", ".", " ", CATEGORY_SEP, LEI, "a"}

\* the title of line 113 as a heading of the source, and the titles of the
\* examples: a subcategory-shaped and a numeric title that read like a category
ExampleTitles ==
    { Unclassified,
      <<"1", ".", " ", "a", CATEGORY_SEP, "a", "a", LEI>>,
      <<"1", "0", " ", "a", CATEGORY_SEP, "a", "a", LEI>> }

HeadingTitles == SeqsUpTo(HeadingAlphabet, MaxHeadingLen) \cup ExampleTitles

\* what precedes the heading: nothing, a group without a subcategory, a group in
\* a subcategory without and with a category heading, an empty group title
Contexts ==
    { <<>>, <<L_GRP, L_ENT>>, <<L_SUB, L_GRP, L_SHOT, L_ENT>>,
      <<L_CAT, L_SUB, L_GRP, L_ENT>>, <<L_CAT, L_SUB, L_EMPTY>> }

\* what follows the heading: a group, or a subcategory and a group
Tails == { <<L_GRP, L_ENT>>, <<L_SUB, L_GRP>> }

HeadingLines == {Bold(x) : x \in HeadingTitles}

\* the files read: one heading of HeadingLines between a context and a tail
ReadHeadingLine == ReadFileLine(Contexts, HeadingLines, Tails)

NextHeadings ==
    \/ ReadHeadingLine
    \/ EndOfInput

\* parse_markdown, line by line, on the files of one heading in a context
SpecHeadings == InitParse /\ [][NextHeadings]_vars

-----------------------------------------------------------------------------
(* Vocabulary of the properties *)

\* the rule of lines 82-127 that handles a line
Kind(raw) ==
    LET line == Strip(raw)
        title == Strip(BoldGroup1(line))
    IN  IF line = <<>> THEN "blank"
        ELSE IF SCREENSHOT_RE(line) THEN "screenshot"
        ELSE IF ~BOLD_RE(line) THEN "plain"
        ELSE IF PAGE_BOLD_NUM_RE(title) THEN "pagenum"
        ELSE IF NumericHeading(title) /\ ~SUBCATEGORY_RE(title) THEN "drop"
        ELSE IF CategoryHeading(title) THEN "category"
        ELSE IF SUBCATEGORY_RE(title) THEN "subcategory"
        ELSE "group"

\* the kinds of the lines of an input
Kinds(text) == SubSeq([i \in 1..Len(text) |-> Kind(text[i])], 1, Len(text))

TitleOf(raw) == Strip(BoldGroup1(Strip(raw)))
PageNumLine(raw) == Kind(raw) = "pagenum"
DropLine(raw) == Kind(raw) = "drop"
CategoryLine(raw) == Kind(raw) = "category"
SubcategoryLine(raw) == Kind(raw) = "subcategory"
GroupLine(raw) == Kind(raw) = "group"
Flushing(kind) == kind \in {"drop", "category", "subcategory", "group"}
FlushingLine(raw) == Flushing(Kind(raw))
\* neither bold nor a screenshot marker
Plain(kind) == kind \in {"blank", "plain"}

\* the elements of a set of numbers, in increasing order
Ascending(S) ==
    [k \in 1..Cardinality(S) |-> CHOOSE i \in S : Cardinality({j \in S : j < i}) = k - 1]

\* the subcategories of a tree and the groups of a tree, in tree order
AllSubcategories(cats) ==
    Concat([ci \in 1..Len(cats) |-> cats[ci].subcategories], Len(cats))
AllGroups(cats) ==
    LET subs == AllSubcategories(cats)
    IN  Concat([k \in 1..Len(subs) |-> subs[k].groups], Len(subs))
AllEntries(cats) ==
    LET gs == AllGroups(cats)
    IN  UNION {Range(gs[k].entries) : k \in 1..Len(gs)}

\* the groups of the subcategory a reference points to
GroupsAt(cats, ref) == cats[ref[1]].subcategories[ref[2]].groups

\* a step of the loop of parse_markdown reads one more line
ReadsLine == pc = "parsing" /\ pc' = "parsing" /\ Len(lines') = Len(lines) + 1
LineRead == lines'[Len(lines')]

-----------------------------------------------------------------------------
(* build_site, step by step: lines 142-153, then the writes of lines 166-238,
   then lines 240-246 *)

\* build_site is entered with the tree of a readable file
InitBuild ==
    /\ pc = "build"
    /\ argv = <<Prog, FileA>>
    /\ cwd_md = {FileA}
    /\ err_stream \in ErrStreams
    /\ site_old \in {{}, {OldPage}}
    /\ in_path = FileA
    /\ \E text \in Inputs :
          /\ lines = text
          /\ categories = ParseAll(text).categories
    /\ cur_cat = 0
    /\ cur_sub = NoSub
    /\ cur_group_title = None
    /\ cur_entries = <<>>
    /\ assigned = 0
    /\ writes = <<>>
    /\ files = <<>>
    /\ manifest = <<>>
    /\ stderr = <<>>
    /\ exit_code = NoExit
    /\ heap = <<>>
    /\ results = <<>>

\* one assignment of lines 144, 146 or 153; group_id counts the groups named
AssignFile ==
    /\ pc = "build"
    /\ assigned < Len(NamingOrder(categories))
    /\ LET ref == NamingOrder(categories)[assigned + 1]
           ci == ref[1]
           si == ref[2]
           gi == ref[3]
           group_id == assigned + 1 - Len(CategoryOrder(categories))
       IN  categories' =
              IF si = 0 THEN [categories EXCEPT ![ci].file = CatFile(ci)]
              ELSE IF gi = 0
              THEN [categories EXCEPT ![ci].subcategories[si].file = SubFile(ci, si)]
              ELSE [categories EXCEPT ![ci].subcategories[si].groups[gi].file =
                                          GroupFile(group_id)]
    /\ assigned' = assigned + 1
    /\ UNCHANGED <<callVars, pc, argv, cwd_md, err_stream, site_old, in_path, lines, cur_cat, cur_sub,
                   cur_group_title, cur_entries, writes, files, manifest, stderr,
                   exit_code>>

\* line 166 reached before the loops of lines 143-153 have ended
ReadyToWrite_Early == TRUE

\* line 166 is reached: the loops of lines 143-153 have ended
ReadyToWrite == assigned = Len(NamingOrder(categories))

\* one call of _write_text of lines 166-238
WriteSiteFile ==
    /\ pc = "build"
    /\ ReadyToWrite
    /\ Len(writes) < Len(SiteWrites(categories))
    /\ writes' = Append(writes, SiteWrites(categories)[Len(writes) + 1])
    /\ UNCHANGED <<callVars, pc, argv, cwd_md, err_stream, site_old, in_path, lines, parserVars, assigned,
                   files, manifest, stderr, exit_code>>

\* the call raises (lines 133-135)
WriteSiteFileFail ==
    /\ pc = "build"
    /\ ReadyToWrite
    /\ Len(writes) < Len(SiteWrites(categories))
    /\ Abort
    /\ UNCHANGED <<callVars, argv, cwd_md, err_stream, site_old, in_path, lines, parserVars, assigned,
                   writes, files, manifest>>

\* lines 240-246
CollectSite ==
    /\ pc = "build"
    /\ ReadyToWrite
    /\ Len(writes) = Len(SiteWrites(categories))
    /\ files' = CollectFiles(site_old, Range(writes))
    /\ pc' = "hhc"
    /\ UNCHANGED <<callVars, argv, cwd_md, err_stream, site_old, in_path, lines, parserVars, assigned,
                   writes, manifest, stderr, exit_code>>

\* line 242 raises after the last write
CollectSiteFail ==
    /\ pc = "build"
    /\ ReadyToWrite
    /\ Len(writes) = Len(SiteWrites(categories))
    /\ Abort
    /\ UNCHANGED <<callVars, argv, cwd_md, err_stream, site_old, in_path, lines, parserVars, assigned,
                   writes, files, manifest>>

NextBuild ==
    \/ MakeSiteDirFail
    \/ AssignFile
    \/ WriteSiteFile
    \/ WriteSiteFileFail
    \/ CollectSite
    \/ CollectSiteFail

\* build_site, one assignment and one write at a time
SpecBuild == InitBuild /\ [][NextBuild]_vars

-----------------------------------------------------------------------------
(* parse_markdown and the naming of build_site on objects with an identity.
   The heap is the sequence of the objects created so far; the identity of an
   object is its position.  A list object holds its items; a Category, a
   Subcategory or a Group holds its title, its file and the identity of its list
   (subcategories, groups, entries). *)

ListCell(items) ==
    [kind |-> "list", title |-> <<>>, file |-> <<>>, items |-> items, child |-> 0]

\* Category(title=...), Subcategory(title=...), Group(title=..., entries=...)
NodeCell(kind, title, child) ==
    [kind |-> kind, title |-> title, file |-> <<>>, items |-> <<>>, child |-> child]

\* list.append
ListAppend(h, list, x) == [h EXCEPT ![list].items = Append(@, x)]

\* lines 66-70 with categories a list that is created once, with the first call,
\* and used by every call
HeapInit_ModuleList(h) ==
    LET h1 == IF h = <<>> THEN Append(h, ListCell(<<>>)) ELSE h
        h2 == Append(h1, ListCell(<<>>))
    IN  [heap |-> h2, categories |-> 1, cur_cat |-> 0, cur_sub |-> 0,
         cur_group_title |-> None, cur_entries |-> Len(h2)]

\* lines 66-70: two new lists, categories and cur_entries
HeapInit(h) ==
    LET h1 == Append(h, ListCell(<<>>))
        h2 == Append(h1, ListCell(<<>>))
    IN  [heap |-> h2, categories |-> Len(h1), cur_cat |-> 0, cur_sub |-> 0,
         cur_group_title |-> None, cur_entries |-> Len(h2)]

\* lines 72-79: the group takes the list cur_entries, and cur_entries is a
\* new list
HeapFlushGroup(hs) ==
    LET h1 == IF Truthy(hs.cur_group_title) /\ hs.cur_sub # 0
              THEN LET hg == Append(hs.heap,
                                    NodeCell("Group",
                                             _normalize_group_title(hs.cur_group_title),
                                             hs.cur_entries))
                   IN  ListAppend(hg, hs.heap[hs.cur_sub].child, Len(hg))
              ELSE hs.heap
        h2 == Append(h1, ListCell(<<>>))
    IN  [hs EXCEPT !.heap = h2, !.cur_group_title = None, !.cur_entries = Len(h2)]

\* Category(title=title) appended to categories: the node and its own list
HeapAddCategory(hs, title) ==
    LET h1 == Append(hs.heap, ListCell(<<>>))
        h2 == Append(h1, NodeCell("Category", title, Len(h1)))
    IN  [hs EXCEPT !.heap = ListAppend(h2, hs.categories, Len(h2)),
                   !.cur_cat = Len(h2)]

\* lines 99-105
HeapNewCategory(hs, title) ==
    [HeapAddCategory(HeapFlushGroup(hs), title) EXCEPT !.cur_sub = 0]

\* lines 107-117
HeapNewSubcategory(hs, title) ==
    LET f  == HeapFlushGroup(hs)
        c  == IF f.cur_cat = 0 THEN HeapAddCategory(f, Unclassified) ELSE f
        t  == SubGroup1(title) \o <<".", " ">> \o Strip(SubGroup2(title))
        h1 == Append(c.heap, ListCell(<<>>))
        h2 == Append(h1, NodeCell("Subcategory", t, Len(h1)))
    IN  [c EXCEPT !.heap = ListAppend(h2, c.heap[c.cur_cat].child, Len(h2)),
                  !.cur_sub = Len(h2)]

\* lines 119-122
HeapNewGroupHeading(hs, title) ==
    [HeapFlushGroup(hs) EXCEPT !.cur_group_title = title]

\* lines 124-127
HeapEntryLine(hs, line) ==
    IF Truthy(hs.cur_group_title) /\ _normalize_entry(line) # <<>>
    THEN [hs EXCEPT !.heap = ListAppend(@, hs.cur_entries, _normalize_entry(line))]
    ELSE hs

\* one turn of the loop of lines 81-127
HeapParseLine(hs, raw) ==
    LET line == Strip(raw)
        title == Strip(BoldGroup1(line))
    IN  IF line = <<>> THEN hs
        ELSE IF SCREENSHOT_RE(line) THEN hs
        ELSE IF ~BOLD_RE(line) THEN HeapEntryLine(hs, line)
        ELSE IF PAGE_BOLD_NUM_RE(title) THEN hs
        ELSE IF NumericHeading(title) /\ ~SUBCATEGORY_RE(title) THEN HeapFlushGroup(hs)
        ELSE IF CategoryHeading(title) THEN HeapNewCategory(hs, title)
        ELSE IF SUBCATEGORY_RE(title) THEN HeapNewSubcategory(hs, title)
        ELSE HeapNewGroupHeading(hs, title)

RECURSIVE HeapParseLines(_, _, _)
\* the loop of lines 81-127 from line a of the text
HeapParseLines(hs, text, a) ==
    IF a > Len(text) THEN hs
    ELSE HeapParseLines(HeapParseLine(hs, text[a]), text, a + 1)

\* a call of parse_markdown: the heap after it and the list it returns
HeapParse(h, text) ==
    LET end == HeapFlushGroup(HeapParseLines(HeapInit(h), text, 1))
    IN  [heap |-> end.heap, result |-> end.categories]

\* the tree a list of categories stands for
TreeOf(h, root) ==
    [i \in 1..Len(h[root].items) |->
        LET c == h[h[root].items[i]]
        IN  [title |-> c.title,
             file |-> c.file,
             subcategories |->
                [j \in 1..Len(h[c.child].items) |->
                    LET sc == h[h[c.child].items[j]]
                    IN  [title |-> sc.title,
                         file |-> sc.file,
                         groups |->
                            [k \in 1..Len(h[sc.child].items) |->
                                LET g == h[h[sc.child].items[k]]
                                IN  [title |-> g.title,
                                     entries |-> h[g.child].items,
                                     file |-> g.file]]]]]]

\* the object a reference of NamingOrder stands for in the tree of root
NodeAt(h, root, ref) ==
    LET cat == h[root].items[ref[1]]
        sub == h[h[cat].child].items[ref[2]]
    IN  IF ref[2] = 0 THEN cat
        ELSE IF ref[3] = 0 THEN sub
        ELSE h[h[sub].child].items[ref[3]]

RECURSIVE HeapAssignFrom(_, _, _, _)
\* the assignments of lines 142-153 from the n-th on, in their order
HeapAssignFrom(h, root, order, n) ==
    IF n > Len(order) THEN h
    ELSE LET ref == order[n]
             name == IF ref[2] = 0 THEN CatFile(ref[1])
                     ELSE IF ref[3] = 0 THEN SubFile(ref[1], ref[2])
                     ELSE GroupFile(n - Len(CategoryOrder(TreeOf(h, root))))
         IN  HeapAssignFrom([h EXCEPT ![NodeAt(h, root, ref)].file = name],
                            root, order, n + 1)

\* lines 142-153 on the objects of the list root
HeapAssignFiles(h, root) == HeapAssignFrom(h, root, NamingOrder(TreeOf(h, root)), 1)

\* the file is read by two calls of parse_markdown
InitCalls ==
    /\ pc = "call"
    /\ argv = <<Prog, FileA>>
    /\ cwd_md = {FileA}
    /\ err_stream = "open"
    /\ site_old = {}
    /\ in_path = FileA
    /\ lines \in SeqsUpTo(Lines, MaxMainLines)
    /\ categories = <<>>
    /\ cur_cat = 0
    /\ cur_sub = NoSub
    /\ cur_group_title = None
    /\ cur_entries = <<>>
    /\ assigned = 0
    /\ writes = <<>>
    /\ files = <<>>
    /\ manifest = <<>>
    /\ stderr = <<>>
    /\ exit_code = NoExit
    /\ heap = <<>>
    /\ results = <<>>

\* categories = parse_markdown(in_path), once more
CallParse ==
    /\ pc = "call"
    /\ Len(results) < 2
    /\ LET r == HeapParse(heap, lines)
       IN  /\ heap' = r.heap
           /\ results' = Append(results, r.result)
    /\ UNCHANGED <<pc, argv, cwd_md, err_stream, site_old, in_path, lines, parserVars, assigned, writes,
                   files, manifest, stderr, exit_code>>

\* build_site names the nodes of one of the two results
CallBuildSite ==
    /\ pc = "call"
    /\ Len(results) = 2
    /\ \E k \in 1..2 :
          /\ heap' = HeapAssignFiles(heap, results[k])
          /\ assigned' = Len(NamingOrder(TreeOf(heap, results[k])))
    /\ pc' = "built"
    /\ UNCHANGED <<results, argv, cwd_md, err_stream, site_old, in_path, lines, parserVars, writes,
                   files, manifest, stderr, exit_code>>

NextCalls ==
    \/ CallParse
    \/ CallBuildSite

\* two calls of parse_markdown on one file, then build_site on one result
SpecCalls == InitCalls /\ [][NextCalls]_vars

-----------------------------------------------------------------------------
(* C1 *)

\* the string ends with whitespace followed by digits only
PageSuffix(e) ==
    \E i \in 1..(Len(e) - 1) :
        IsSpace(e[i]) /\ \A j \in (i + 1)..Len(e) : IsDigit(e[j])

CleanEntry(e) ==
    /\ e # <<>>
    /\ ~IsSpace(e[1])
    /\ ~IsSpace(e[Len(e)])
    /\ ~PageSuffix(e)

\* C1: every entry stored in a group of the tree is non-empty, has no leading or
\* trailing whitespace, and does not end with whitespace followed by digits.
\* The code removes one trailing number only: "b 1 2" is stored as "b 1".
C1_EntriesClean == \A e \in AllEntries(categories) : CleanEntry(e)

-----------------------------------------------------------------------------
(* C2 *)

\* the first flushing heading after line h, or the end of the input
NextFlush(ks, h) ==
    LET later == {j \in (h + 1)..Len(ks) : Flushing(ks[j])}
    IN  IF later = {} THEN Len(ks) + 1 ELSE Min(later)

\* the non-empty normalized plain lines between heading h and the next flush
EntriesAfter(text, ks, h) ==
    LET kept == {j \in (h + 1)..(NextFlush(ks, h) - 1) :
                    Plain(ks[j]) /\ _normalize_entry(text[j]) # <<>>}
        at == Ascending(kept)
    IN  [k \in 1..Len(at) |-> _normalize_entry(text[at[k]])]

\* a subcategory is current at line h: a subcategory heading precedes it with no
\* category heading in between
SubcategoryCurrentAt(ks, h) ==
    \E sIdx \in 1..(h - 1) :
        /\ ks[sIdx] = "subcategory"
        /\ \A j \in (sIdx + 1)..(h - 1) : ks[j] # "category"

\* the group headings of the input whose group reaches the tree
StoredHeadings(text, ks) ==
    Ascending({h \in 1..Len(text) :
                  /\ ks[h] = "group"
                  /\ TitleOf(text[h]) # <<>>
                  /\ SubcategoryCurrentAt(ks, h)})

ExampleC2 ==
    <<L_CAT, L_SUB, <<"*", "*", "g", "*", "*">>, L_ENT, L_SHOT, <<"b">>>>

ExampleC2Tree ==
    << [title |-> <<"b", CATEGORY_SEP, "a", LEI>>, file |-> <<>>,
        subcategories |->
           << [title |-> <<"1", ".", " ", "a">>, file |-> <<>>,
               groups |-> << [title |-> <<"g">>, file |-> <<>>,
                              entries |-> << <<"a">>, <<"b">> >>] >>] >>] >>

C2_Example == parse_markdown(ExampleC2) = ExampleC2Tree

\* C2: in the returned tree the groups are, in order, those of the stored group
\* headings, and the entries of each are exactly the non-empty normalized plain
\* lines between its heading and the next flushing heading or the end of the
\* input, in source order; the example input of the specification gives one
\* category, one subcategory and one group with the two entries.
C2_EntriesOfGroup ==
    /\ C2_Example
    /\ pc = "parsed" =>
          LET ks == Kinds(lines)
              hs == StoredHeadings(lines, ks)
              gs == AllGroups(categories)
          IN  /\ Len(gs) = Len(hs)
              /\ \A k \in 1..Len(gs) : gs[k].entries = EntriesAfter(lines, ks, hs[k])

\* a group with two entries, one of them with its page number removed, and a
\* screenshot marker between them
C2_Witness ==
    /\ pc = "parsed"
    /\ Len(lines) = 5
    /\ lines[3] = L_ENT /\ lines[4] = L_SHOT /\ lines[5] = L_ENT2
    /\ Len(AllGroups(categories)) = 1
    /\ AllGroups(categories)[1].entries = << <<"a">>, <<"b", " ", "1">> >>

-----------------------------------------------------------------------------
(* C3 *)

RECURSIVE WithoutPageNumbers(_)
\* the input with every bold digits-only line deleted
WithoutPageNumbers(text) ==
    IF text = <<>> THEN <<>>
    ELSE IF PageNumLine(Head(text)) THEN WithoutPageNumbers(Tail(text))
    ELSE <<Head(text)>> \o WithoutPageNumbers(Tail(text))

\* C3: a bold digits-only line changes no parser state (the tree, the current
\* category and subcategory, the pending title and the pending entries), so the
\* lines after it still go to the group that was pending; the tree of an input
\* is the tree of the input without its bold digits-only lines.
C3_PageNumberIsNoise ==
    /\ [][ReadsLine /\ PageNumLine(LineRead) => UNCHANGED parserVars]_vars
    /\ [](pc = "parsed" => categories = parse_markdown(WithoutPageNumbers(lines)))

\* a page number between two entries of one group, both entries stored in it
C3_Witness ==
    /\ pc = "parsed"
    /\ lines = <<L_SUB, L_GRP, L_ENT, L_NUM, L_ENT2>>
    /\ Len(AllGroups(categories)) = 1
    /\ Len(AllGroups(categories)[1].entries) = 2

-----------------------------------------------------------------------------
(* C4 *)

\* the tree after the pending group has been attached to the subcategory at ref
WithGroup(cats, ref, title, entries) ==
    [cats EXCEPT ![ref[1]].subcategories[ref[2]].groups =
        Append(@, Group(_normalize_group_title(title), entries))]

\* C4: a bold line whose title is digits, whitespace and more (and is not
\* subcategory-shaped) flushes the pending group, which is attached to the
\* current subcategory if there is one; it creates no category, subcategory or
\* group of its own and leaves the current category and subcategory as they
\* were; after it no group is pending until the next group heading, and a line
\* that is not bold changes nothing while no group is pending.  (A group is
\* pending when the pending title is a non-empty string.)
C4_DropHeading ==
    /\ [][ReadsLine /\ DropLine(LineRead) =>
            /\ cur_cat' = cur_cat
            /\ cur_sub' = cur_sub
            /\ cur_group_title' = None
            /\ cur_entries' = <<>>
            /\ categories' =
                  IF Truthy(cur_group_title) /\ cur_sub # NoSub
                  THEN WithGroup(categories, cur_sub, cur_group_title, cur_entries)
                  ELSE categories]_vars
    /\ [][ReadsLine /\ cur_group_title = None /\ ~GroupLine(LineRead) =>
            cur_group_title' = None]_vars
    /\ [][ReadsLine /\ cur_group_title = None /\ Plain(Kind(LineRead)) =>
            UNCHANGED parserVars]_vars

\* a dropped heading has flushed a group with one entry, and the entry line after
\* it went nowhere
C4_Witness ==
    /\ pc = "parsing"
    /\ lines = <<L_SUB, L_GRP, L_ENT, L_DROP, L_ENT2>>
    /\ Len(AllGroups(categories)) = 1
    /\ AllGroups(categories)[1].entries = << <<"a">> >>
    /\ cur_group_title = None
    /\ cur_entries = <<>>

-----------------------------------------------------------------------------
(* C5 *)

\* the lines that own subcategories, in order: 0 stands for the synthesized
\* category, present when a subcategory heading precedes every category heading
Owners(ks) ==
    LET catIdx == {i \in 1..Len(ks) : ks[i] = "category"}
        subIdx == {i \in 1..Len(ks) : ks[i] = "subcategory"}
    IN  IF \E sIdx \in subIdx : \A c \in catIdx : sIdx < c
        THEN <<0>> \o Ascending(catIdx)
        ELSE Ascending(catIdx)

\* the subcategory headings between owner k and the next owner
OwnedBy(ks, k) ==
    LET own == Owners(ks)
    IN  {i \in 1..Len(ks) :
            /\ ks[i] = "subcategory"
            /\ i > own[k]
            /\ k < Len(own) => i < own[k + 1]}

\* C5: no subcategory heading is dropped: in every parser state the tree has
\* one subcategory for each subcategory-shaped bold line read, each in the list
\* of the category of the nearest category heading before it; the subcategory
\* headings read before any category heading are in a synthesized category
\* titled Unclassified, the first of the list; the current category and the
\* current subcategory refer to nodes of the tree.
C5_NoSubcategoryDropped ==
    LET ks == Kinds(lines)
        own == Owners(ks)
    IN  /\ Len(categories) = Len(own)
        /\ \A k \in 1..Len(own) :
              /\ categories[k].title =
                    IF own[k] = 0 THEN Unclassified ELSE TitleOf(lines[own[k]])
              /\ Len(categories[k].subcategories) = Cardinality(OwnedBy(ks, k))
        /\ Len(AllSubcategories(categories))
              = Cardinality({i \in 1..Len(ks) : ks[i] = "subcategory"})
        /\ cur_cat \in 0..Len(categories)
        /\ cur_sub # NoSub =>
              /\ cur_sub[1] \in 1..Len(categories)
              /\ cur_sub[2] \in 1..Len(categories[cur_sub[1]].subcategories)

\* two subcategory headings before any category heading, then a category with
\* a subcategory of its own
C5_Witness ==
    /\ lines = <<L_SUB, L_SUB, L_CAT, L_SUB>>
    /\ Len(categories) = 2
    /\ categories[1].title = Unclassified
    /\ Len(categories[1].subcategories) = 2
    /\ Len(categories[2].subcategories) = 1

-----------------------------------------------------------------------------
(* C6 *)

\* a step that calls flush_group: a flushing heading is read, or the input ends
Flushes ==
    \/ ReadsLine /\ FlushingLine(LineRead)
    \/ pc = "parsing" /\ pc' = "parsed"

\* what the step leaves pending: a group heading sets the title again
PendingCleared ==
    /\ cur_entries' = <<>>
    /\ cur_group_title' =
          IF ReadsLine /\ GroupLine(LineRead) THEN TitleOf(LineRead) ELSE None

\* C6 as claimed: a flush with a pending title (any title that is not None) and
\* a current subcategory appends exactly one group, with the normalized title
\* and the accumulated entries, to the end of the list of that subcategory; a
\* flush with a pending title and no current subcategory drops the group; in
\* every case the pending title and entries are cleared.
C6_Original ==
    [][Flushes =>
          /\ cur_group_title # None /\ cur_sub # NoSub =>
                /\ GroupsAt(categories', cur_sub) =
                      Append(GroupsAt(categories, cur_sub),
                             Group(_normalize_group_title(cur_group_title),
                                   cur_entries))
                /\ Len(AllGroups(categories')) = Len(AllGroups(categories)) + 1
          /\ cur_group_title # None /\ cur_sub = NoSub =>
                AllGroups(categories') = AllGroups(categories)
          /\ PendingCleared]_vars

\* C6, amended: a flush with a non-empty pending title and a current
\* subcategory appends exactly one group, with the normalized title and the
\* accumulated entries, to the end of the list of that subcategory; any other
\* flush (no pending title, an empty pending title, or no current subcategory)
\* appends no group and what was pending appears nowhere in the tree; in every
\* case the pending title and entries are cleared.
C6_Flush ==
    [][Flushes =>
          /\ Truthy(cur_group_title) /\ cur_sub # NoSub =>
                /\ GroupsAt(categories', cur_sub) =
                      Append(GroupsAt(categories, cur_sub),
                             Group(_normalize_group_title(cur_group_title),
                                   cur_entries))
                /\ Len(AllGroups(categories')) = Len(AllGroups(categories)) + 1
          /\ ~(Truthy(cur_group_title) /\ cur_sub # NoSub) =>
                AllGroups(categories') = AllGroups(categories)
          /\ PendingCleared]_vars

\* a group pending with no subcategory was dropped with its entry, and a later
\* group with a subcategory was stored
C6_Witness ==
    /\ pc = "parsed"
    /\ lines = <<L_GRP, L_ENT, L_SUB, L_GRP, L_ENT2>>
    /\ AllGroups(categories) =
          << Group(<<"g", DOT_CN>>, << <<"b", " ", "1">> >>) >>
    /\ cur_group_title = None
    /\ cur_entries = <<>>

-----------------------------------------------------------------------------
(* C7 *)

\* the last flushing heading of the input, 0 if there is none
LastHeading(ks) ==
    LET hs == {i \in 1..Len(ks) : Flushing(ks[i])}
    IN  IF hs = {} THEN 0 ELSE Max(hs)

\* the subcategory read last is the last one of the last category
LastGroupIs(cats, title, entries) ==
    /\ cats # <<>>
    /\ LET subs == cats[Len(cats)].subcategories
       IN  /\ subs # <<>>
           /\ LET gs == subs[Len(subs)].groups
              IN  /\ gs # <<>>
                  /\ gs[Len(gs)].title = _normalize_group_title(title)
                  /\ gs[Len(gs)].entries = entries

\* C7 as claimed: when the last heading of the input is a group heading read
\* while a subcategory is current, the returned tree has that group, with the
\* entry lines up to the end of the input, as the last group of that
\* subcategory.
C7_Original ==
    pc = "parsed" =>
        LET ks == Kinds(lines)
            h == LastHeading(ks)
        IN  h > 0 /\ ks[h] = "group" /\ SubcategoryCurrentAt(ks, h) =>
                LastGroupIs(categories, TitleOf(lines[h]), EntriesAfter(lines, ks, h))

\* C7, amended: the same, for a group heading whose title is not empty; the
\* group of a bold line of whitespace only is not stored.
C7_FinalFlush ==
    pc = "parsed" =>
        LET ks == Kinds(lines)
            h == LastHeading(ks)
        IN  /\ h > 0 /\ ks[h] = "group" /\ SubcategoryCurrentAt(ks, h)
                  /\ TitleOf(lines[h]) # <<>> =>
                LastGroupIs(categories, TitleOf(lines[h]), EntriesAfter(lines, ks, h))
            /\ h > 0 /\ ks[h] = "group" /\ TitleOf(lines[h]) = <<>> =>
                AllGroups(categories) =
                    AllGroups(parse_markdown(SubSeq(lines, 1, h - 1)))

\* the input ends inside a group: its two entries are stored by the final flush
C7_Witness ==
    /\ pc = "parsed"
    /\ lines = <<L_CAT, L_SUB, L_GRP, L_ENT, L_ENT2>>
    /\ LastGroupIs(categories, <<"g", "?">>, << <<"a">>, <<"b", " ", "1">> >>)

-----------------------------------------------------------------------------
(* C8 *)

\* the file names of the nodes of a tree: categories, subcategories, groups
NodeFiles(cats) ==
    LET subs == AllSubcategories(cats)
        gs == AllGroups(cats)
    IN  [i \in 1..Len(cats) |-> cats[i].file]
        \o [i \in 1..Len(subs) |-> subs[i].file]
        \o [i \in 1..Len(gs) |-> gs[i].file]

\* build_site has named the nodes
Named == pc \in {"hhc", "hhp", "summary"} \/ (pc = "exit" /\ writes # <<>>)

\* C8: once build_site has assigned the file names, every node has a name and no
\* two nodes of the tree (categories, subcategories, groups) have the same one,
\* also in a tree of more than 99 categories or subcategories and with groups in
\* several subcategories and categories.
C8_UniqueFileNames ==
    Named =>
        LET fs == NodeFiles(categories)
        IN  /\ \A i \in 1..Len(fs) : fs[i] # <<>>
            /\ Cardinality(Range(fs)) = Len(fs)

\* a finished build of a tree of more than 99 categories with a group each
C8_Witness ==
    /\ pc = "exit"
    /\ exit_code = <<0>>
    /\ Len(categories) > 99
    /\ Len(AllGroups(categories)) > 99
    /\ categories[Len(categories)].file = CatFile(Len(categories))

-----------------------------------------------------------------------------
(* C9 *)

\* the files written under site by the run, as the manifest names them
WrittenSiteFiles ==
    {Rel(writes[i]) : i \in {j \in 1..Len(writes) : StartsWith(writes[j], SiteDir)}}

\* C9: the list returned by build_site, and the [FILES] section of project.hhp,
\* hold exactly the files this build wrote under site, whatever the directory
\* held before the run.  The code lists every file found under site: a file
\* left there by an earlier run is listed too.
C9_FilesAreWritten ==
    /\ pc \in {"hhc", "hhp", "summary"} => Range(files) = WrittenSiteFiles
    /\ manifest # <<>> => Range(FilesSection(manifest)) = WrittenSiteFiles

-----------------------------------------------------------------------------
(* C10 *)

NoPathGiven == Len(argv) < 2
GivenPathMissing == Len(argv) >= 2 /\ argv[2] \notin cwd_md
NoInputFound == (NoPathGiven /\ cwd_md = {}) \/ GivenPathMissing

\* nothing was parsed and nothing was written
Untouched ==
    /\ lines = <<>>
    /\ categories = <<>>
    /\ writes = <<>>
    /\ files = <<>>
    /\ manifest = <<>>

\* the site, contents.hhc and project.hhp have been written
AllWritten ==
    /\ Range(SiteWrites(categories)) \subseteq Range(writes)
    /\ ContentsHhc \in Range(writes)
    /\ ProjectHhp \in Range(writes)
    /\ manifest # <<>>

\* C10 as claimed: whenever no input file is found the run ends with exit code
\* 2, the error on standard error, nothing parsed and nothing written; exit code
\* 0 comes only after the site, contents.hhc and project.hhp are written.
C10_Original ==
    /\ pc = "exit" /\ NoInputFound =>
          exit_code = <<2>> /\ stderr # <<>> /\ Untouched
    /\ exit_code = <<0>> => AllWritten

\* what standard error holds at the end of a run that reported the text and
\* nothing else
Reported(text) == stderr = IF err_stream = "open" THEN text ELSE <<>>

\* the run ended with an uncaught error: exit code 1, or 120 when the writes
\* of standard error fail
EndedWithError ==
    IF err_stream = "full" THEN exit_code \in {<<1>>, <<120>>} ELSE exit_code = <<1>>

\* C10, amended: when no path is given and the current directory has no .md
\* file, nothing is parsed and nothing is written, and the run ends with exit
\* code 2 and the message on standard error when standard error is open; when
\* the writes of standard error fail it ends with exit code 1 or 120 and
\* nothing on standard error; when standard error is closed the message goes
\* to standard output, nothing is on standard error, and the run ends with
\* exit code 2, or with 1 or 120 when standard output fails.  Exit code 2 has
\* no other cause.  When a path is given and the file does not exist the run
\* ends with the uncaught error of the read, nothing parsed and nothing
\* written: exit code 1 and a traceback when standard error is open, exit code
\* 1 when it is closed, 1 or 120 when its writes fail.  Exit code 0 comes only
\* after the site, contents.hhc and project.hhp are written, and exit code 120
\* only when a standard stream fails: standard error, or standard output
\* after all the files are written or under the message of a run without
\* input.
C10_ExitCodes ==
    /\ pc = "exit" /\ NoPathGiven /\ cwd_md = {} =>
          /\ Untouched
          /\ Reported(<<NoMdMessage>>)
          /\ err_stream = "open" => exit_code = <<2>>
          /\ err_stream = "full" => exit_code \in {<<1>>, <<120>>}
          /\ err_stream = "closed" => exit_code \in {<<2>>, <<1>>, <<120>>}
    /\ exit_code = <<2>> => NoPathGiven /\ cwd_md = {} /\ err_stream # "full"
    /\ pc = "exit" /\ GivenPathMissing =>
          EndedWithError /\ Reported(<<Traceback>>) /\ Untouched
    /\ pc = "exit" <=> exit_code # NoExit
    /\ exit_code = <<0>> => AllWritten /\ stderr = <<>>
    /\ exit_code = <<120>> =>
          \/ err_stream = "full"
          \/ AllWritten
          \/ err_stream = "closed" /\ NoPathGiven /\ cwd_md = {}
    /\ err_stream # "open" => stderr = <<>>

\* a run without a path in a directory without .md files has ended
C10_Witness ==
    /\ pc = "exit"
    /\ NoPathGiven
    /\ cwd_md = {}
    /\ exit_code = <<2>>
    /\ stderr = <<NoMdMessage>>

-----------------------------------------------------------------------------
(* C11 *)

NormalTitle(t) ==
    /\ ~Contains(t, DOT_JP)
    /\ ~Contains(t, "?")
    /\ ~Contains(t, NBSP)
    /\ t # <<>> => ~IsSpace(t[1]) /\ ~IsSpace(t[Len(t)])

\* normalizing every string of TitleStrings twice gives what normalizing it once
\* gives, and that has no DOT_JP, no question mark, no non-breaking space and no
\* whitespace at its ends
C11_Idempotent ==
    \A x \in TitleStrings :
        /\ _normalize_group_title(_normalize_group_title(x)) = _normalize_group_title(x)
        /\ NormalTitle(_normalize_group_title(x))

\* C11: group title normalization is idempotent, and every group title of the
\* tree is normalized: normalizing it again changes nothing, and it has no
\* DOT_JP, no question mark, no non-breaking space and no whitespace at its ends.
C11_TitlesNormalized ==
    /\ C11_Idempotent
    /\ LET gs == AllGroups(categories)
       IN  \A k \in 1..Len(gs) :
              /\ NormalTitle(gs[k].title)
              /\ _normalize_group_title(gs[k].title) = gs[k].title

\* a heading with a DOT_JP, a non-breaking space and a question mark is stored
\* with two DOT_CN around a space
C11_Witness ==
    /\ pc = "parsed"
    /\ lines = <<L_SUB, Bold(<<DOT_JP, NBSP, "?">>)>>
    /\ Len(AllGroups(categories)) = 1
    /\ AllGroups(categories)[1].title = <<DOT_CN, " ", DOT_CN>>

-----------------------------------------------------------------------------
(* C12 *)

\* the objects of the tree of a list of categories: the list, the nodes and
\* their lists
Reach(h, root) ==
    LET cats == Range(h[root].items)
        subs == UNION {Range(h[h[c].child].items) : c \in cats}
        gs == UNION {Range(h[h[sc].child].items) : sc \in subs}
        nodes == cats \cup subs \cup gs
    IN  {root} \cup nodes \cup {h[n].child : n \in nodes}

\* C12: two calls of parse_markdown on the same lines return the same tree:
\* the same category titles in the same order, the same subcategory titles,
\* the same group titles and the same entries; the two trees have no object
\* in common, and after build_site has named the nodes of one of them the
\* other is as it was returned, without file names.
C12_Determinism ==
    /\ pc = "call" =>
          \A k \in 1..Len(results) : TreeOf(heap, results[k]) = parse_markdown(lines)
    /\ Len(results) = 2 =>
          Reach(heap, results[1]) \cap Reach(heap, results[2]) = {}
    /\ pc = "built" =>
          \E k \in 1..2 :
              /\ TreeOf(heap, results[k]) = AssignFiles(parse_markdown(lines))
              /\ TreeOf(heap, results[3 - k]) = parse_markdown(lines)

\* the file has a subcategory with a group of one entry; both calls returned
\* that tree and the nodes of one of the two are named
C12_Witness ==
    /\ pc = "built"
    /\ lines = <<L_SUB, L_GRP, L_ENT>>
    /\ Len(results) = 2
    /\ results[1] # results[2]
    /\ \E k \in 1..2 :
          /\ AllGroups(TreeOf(heap, results[k]))[1].file = GroupFile(1)
          /\ AllGroups(TreeOf(heap, results[3 - k]))[1].file = <<>>
          /\ AllGroups(TreeOf(heap, results[3 - k]))[1].entries = << <<"a">> >>

-----------------------------------------------------------------------------
(* C13 *)

\* the title is digits only
PurelyDigits(t) == t # <<>> /\ \A i \in 1..Len(t) : IsDigit(t[i])

\* the title starts with digits followed by the character c
DigitsThen(t, c) ==
    \E k \in 1..(Len(t) - 1) : (\A i \in 1..k : IsDigit(t[i])) /\ t[k + 1] = c

\* digits, whitespace, and possibly more
StartsDigitsSpace(t) == DigitsThen(t, " ") \/ DigitsThen(t, NBSP)

\* digits, a dot, and at least one more character
SubcategoryShaped(t) ==
    \E k \in 1..(Len(t) - 2) : (\A i \in 1..k : IsDigit(t[i])) /\ t[k + 1] = "."

CategoryTitle(t) ==
    /\ ~PurelyDigits(t)
    /\ ~StartsDigitsSpace(t)
    /\ Contains(t, CATEGORY_SEP)
    /\ t # <<>> /\ t[Len(t)] = LEI
    /\ ~SubcategoryShaped(t)

\* the tree after the flush of the pending group, if one is pending with a
\* current subcategory
Flushed ==
    IF Truthy(cur_group_title) /\ cur_sub # NoSub
    THEN WithGroup(categories, cur_sub, cur_group_title, cur_entries)
    ELSE categories

\* the step appends a category without subcategories
AppendsEmptyCategory ==
    /\ Len(categories') = Len(categories) + 1
    /\ categories'[Len(categories')].subcategories = <<>>

\* C13: a bold line is handled as a category heading exactly when its title is
\* not digits only, does not start with digits and whitespace, contains the
\* separator, ends with the suffix and is not subcategory-shaped.  Handling it
\* flushes the pending group into the subcategory that was current, appends
\* one category with that title to the end of the list, makes it current and
\* leaves no subcategory current; no other line appends a category without
\* subcategories.  While no subcategory is current no group is stored, and the
\* categories before the last one never change: a group whose heading follows
\* a category heading and precedes its first subcategory heading is not
\* attached to a subcategory of an earlier category.
C13_CategoryHeading ==
    /\ [][ReadsLine =>
            IF BOLD_RE(Strip(LineRead)) /\ CategoryTitle(TitleOf(LineRead))
            THEN /\ categories' = Append(Flushed, Category(TitleOf(LineRead)))
                 /\ cur_cat' = Len(categories')
                 /\ cur_sub' = NoSub
                 /\ cur_group_title' = None
                 /\ cur_entries' = <<>>
            ELSE ~AppendsEmptyCategory]_vars
    /\ [][cur_sub = NoSub => AllGroups(categories') = AllGroups(categories)]_vars
    /\ [][\A k \in 1..(Len(categories) - 1) : categories'[k] = categories[k]]_vars

\* a category heading after a group of an earlier category, then a group
\* heading with an entry: the first category keeps its one group, the second has
\* none
C13_Witness ==
    /\ pc = "parsed"
    /\ lines = <<L_CAT, L_SUB, L_GRP, L_ENT, Bold(<<"a", CATEGORY_SEP, LEI>>), L_GRP, L_ENT>>
    /\ Len(categories) = 2
    /\ categories[2].title = <<"a", CATEGORY_SEP, LEI>>
    /\ categories[2].subcategories = <<>>
    /\ Len(AllGroups(categories)) = 1
    /\ cur_sub = NoSub

-----------------------------------------------------------------------------
(* C14 *)

\* the rules in their order of priority
RuleOrder ==
    <<"screenshot", "pagenum", "drop", "category", "subcategory", "group", "entry">>

\* the condition of a rule, on a stripped line that is not empty
Guard(rule, line) ==
    LET bold == BOLD_RE(line)
        t == Strip(BoldGroup1(line))
    IN  CASE rule = "screenshot" -> SCREENSHOT_RE(line)
          [] rule = "pagenum" -> bold /\ PurelyDigits(t)
          [] rule = "drop" -> bold /\ StartsDigitsSpace(t) /\ ~SubcategoryShaped(t)
          [] rule = "category" ->
                /\ bold
                /\ Contains(t, CATEGORY_SEP)
                /\ t[Len(t)] = LEI
                /\ ~SubcategoryShaped(t)
          [] rule = "subcategory" -> bold /\ SubcategoryShaped(t)
          [] rule = "group" -> bold
          [] rule = "entry" -> ~bold

\* the first rule of the order whose condition holds
FirstRule(raw) ==
    RuleOrder[Min({i \in 1..Len(RuleOrder) : Guard(RuleOrder[i], Strip(raw))})]

\* the title a subcategory heading is stored with: the digits, a dot, a space
\* and the rest without the whitespace around it
SubcategoryTitle(t) ==
    LET k == Max({j \in 1..Len(t) : \A i \in 1..j : IsDigit(t[i])})
    IN  SubSeq(t, 1, k) \o <<".", " ">> \o Strip(SubSeq(t, k + 2, Len(t)))

\* the step appends one subcategory with the title to the current category, or
\* to a new category Unclassified when no category is current
AppendsSubcategory(title) ==
    LET base == IF cur_cat = 0 THEN Append(Flushed, Category(Unclassified)) ELSE Flushed
        ci == IF cur_cat = 0 THEN Len(base) ELSE cur_cat
    IN  /\ categories' =
              [base EXCEPT ![ci].subcategories = Append(@, Subcategory(title))]
        /\ cur_cat' = ci
        /\ cur_sub' = <<ci, Len(categories'[ci].subcategories)>>
        /\ cur_group_title' = None
        /\ cur_entries' = <<>>

\* what a step does when the rule handles the line it reads
Effect(rule, raw) ==
    CASE rule \in {"screenshot", "pagenum"} -> UNCHANGED parserVars
      [] rule = "drop" ->
            /\ categories' = Flushed
            /\ UNCHANGED <<cur_cat, cur_sub>>
            /\ cur_group_title' = None
            /\ cur_entries' = <<>>
      [] rule = "category" ->
            /\ categories' = Append(Flushed, Category(TitleOf(raw)))
            /\ cur_cat' = Len(categories')
            /\ cur_sub' = NoSub
            /\ cur_group_title' = None
            /\ cur_entries' = <<>>
      [] rule = "subcategory" -> AppendsSubcategory(SubcategoryTitle(TitleOf(raw)))
      [] rule = "group" ->
            /\ categories' = Flushed
            /\ UNCHANGED <<cur_cat, cur_sub>>
            /\ cur_group_title' = TitleOf(raw)
            /\ cur_entries' = <<>>
      [] rule = "entry" ->
            /\ UNCHANGED <<categories, cur_cat, cur_sub, cur_group_title>>
            /\ cur_entries' \in {cur_entries, Append(cur_entries, _normalize_entry(raw))}

\* the titles of the categories of a tree
CategoryTitles(cats) == {cats[i].title : i \in 1..Len(cats)}

\* C14: every line that is not empty is handled by exactly one rule, the first
\* in the order screenshot marker, bold digits only, bold digits and space,
\* category, subcategory, group heading, entry whose condition it meets.  A
\* subcategory-shaped title that contains the separator and ends with the suffix
\* gives a subcategory and no category of that title (the only category the
\* step can add is the synthesized one, when no category is current); a title
\* of digits and whitespace that contains the separator and ends with the
\* suffix adds no category and no subcategory, and no group but the pending one.
C14_PriorityOrder ==
    /\ [][ReadsLine /\ Strip(LineRead) # <<>> => Effect(FirstRule(LineRead), LineRead)]_vars
    /\ [][ReadsLine /\ Strip(LineRead) = <<>> => UNCHANGED parserVars]_vars
    /\ [][/\ ReadsLine
          /\ BOLD_RE(Strip(LineRead))
          /\ SubcategoryShaped(TitleOf(LineRead))
          /\ Contains(TitleOf(LineRead), CATEGORY_SEP)
          /\ EndsWith(TitleOf(LineRead), <<LEI>>)
          => /\ Len(AllSubcategories(categories')) = Len(AllSubcategories(categories)) + 1
             /\ CategoryTitles(categories') \subseteq
                   CategoryTitles(categories) \cup {Unclassified}
             /\ cur_cat # 0 => Len(categories') = Len(categories)]_vars
    /\ [][/\ ReadsLine
          /\ BOLD_RE(Strip(LineRead))
          /\ StartsDigitsSpace(TitleOf(LineRead))
          /\ Contains(TitleOf(LineRead), CATEGORY_SEP)
          /\ EndsWith(TitleOf(LineRead), <<LEI>>)
          => /\ Len(categories') = Len(categories)
             /\ AllSubcategories(categories') = AllSubcategories(Flushed)
             /\ AllGroups(categories') = AllGroups(Flushed)]_vars

\* the subcategory-shaped heading of the example, read with a category and a
\* group pending: it is the second subcategory of the one category
C14_Witness ==
    /\ pc = "parsing"
    /\ lines = <<L_CAT, L_SUB, L_GRP, L_ENT,
                 Bold(<<"1", ".", " ", "a", CATEGORY_SEP, "a", "a", LEI>>)>>
    /\ Len(categories) = 1
    /\ Len(categories[1].subcategories) = 2
    /\ categories[1].subcategories[2].title =
          <<"1", ".", " ", "a", CATEGORY_SEP, "a", "a", LEI>>
    /\ Len(AllGroups(categories)) = 1

-----------------------------------------------------------------------------
(* C15 *)

\* digits, a dot, one space, and a name that is not empty and has no whitespace
\* at its ends
WellFormedSubcategoryTitle(t) ==
    \E k \in 1..(Len(t) - 3) :
        /\ \A i \in 1..k : IsDigit(t[i])
        /\ t[k + 1] = "."
        /\ t[k + 2] = " "
        /\ ~IsSpace(t[k + 3])
        /\ ~IsSpace(t[Len(t)])

\* the leading digits of a string
LeadingDigits(t) ==
    SubSeq(t, 1, Max({0} \cup {j \in 1..Len(t) : \A i \in 1..j : IsDigit(t[i])}))

\* C15: every subcategory title of the tree is digits, a dot, exactly one
\* space and a non-empty name without whitespace at its ends; the digits are
\* those of the source heading, whatever the position of the subcategory in
\* its category; the subcategories of a category are those of the subcategory
\* headings it owns, in source order.
C15_SubcategoryTitles ==
    LET ks == Kinds(lines)
        own == Owners(ks)
    IN  /\ Len(categories) = Len(own)
        /\ \A k \in 1..Len(categories) :
              LET at == Ascending(OwnedBy(ks, k))
                  subs == categories[k].subcategories
              IN  /\ Len(subs) = Len(at)
                  /\ \A j \in 1..Len(subs) :
                        /\ WellFormedSubcategoryTitle(subs[j].title)
                        /\ subs[j].title = SubcategoryTitle(TitleOf(lines[at[j]]))
                        /\ LeadingDigits(subs[j].title) =
                              LeadingDigits(TitleOf(lines[at[j]]))

\* the second subcategory of a category comes from a heading numbered 11 with
\* no space after the dot: its title has the 11 and one space
C15_Witness ==
    /\ lines = <<L_CAT, L_SUB, L_EMPTY, Bold(<<"1", "1", ".", "a">>)>>
    /\ Len(categories) = 1
    /\ Len(categories[1].subcategories) = 2
    /\ categories[1].subcategories[1].title = <<"1", ".", " ", "a">>
    /\ categories[1].subcategories[2].title = <<"1", "1", ".", " ", "a">>

-----------------------------------------------------------------------------
(* C16 *)

\* every node of the tree has a file name
AllNamed(cats) == <<>> \notin Range(NodeFiles(cats))

\* C16: in build_site no file is written before every node has its name; a
\* subcategory is named after its category and the groups after all
\* categories and subcategories; category i is named c, i in at least two
\* digits, .html, subcategory j of category i is named c, i, _s, j in at least
\* two digits, .html, and the k-th group of the tree in depth-first order is
\* named g, k in at least four digits, .html, with one counter for the whole
\* tree; no two writes of one build have the same path, and the build ends
\* with every node named and the page of every node written.
C16_NamesBeforeWrites ==
    LET subs == AllSubcategories(categories)
        gs == AllGroups(categories)
    IN  /\ writes # <<>> => AllNamed(categories)
        /\ (\E k \in 1..Len(gs) : gs[k].file # <<>>) =>
              /\ \A i \in 1..Len(categories) : categories[i].file # <<>>
              /\ \A j \in 1..Len(subs) : subs[j].file # <<>>
        /\ \A i \in 1..Len(categories) :
              /\ categories[i].file \in {<<>>, CatFile(i)}
              /\ \A j \in 1..Len(categories[i].subcategories) :
                    /\ categories[i].subcategories[j].file \in {<<>>, SubFile(i, j)}
                    /\ categories[i].subcategories[j].file # <<>> =>
                          categories[i].file # <<>>
        /\ \A k \in 1..Len(gs) : gs[k].file \in {<<>>, GroupFile(k)}
        /\ Cardinality(Range(writes)) = Len(writes)
        /\ pc = "hhc" =>
              /\ categories = AssignFiles(parse_markdown(lines))
              /\ writes = SiteWrites(categories)
              /\ Len(writes) = 2 + Len(NodeFiles(categories))

\* a tree of more than 99 categories is named and its first three files are
\* written: the group of the second category is g0002.html, the last category
\* has three digits
C16_Witness ==
    /\ pc = "build"
    /\ Len(categories) > 99
    /\ Len(writes) = 3
    /\ writes[3] = SitePath(<<"c", "0", "1", ".", "h", "t", "m", "l">>)
    /\ categories[2].subcategories[1].groups[1].file =
          <<"g", "0", "0", "0", "2", ".", "h", "t", "m", "l">>
    /\ categories[Len(categories)].file # <<>>
    /\ categories[Len(categories)].file = <<"c">> \o Decimal(Len(categories)) \o DotHtml

-----------------------------------------------------------------------------
(* C17 *)

\* the listing of line 242 failed: the whole site is written, no list is kept
CollectFailed == writes = SiteWrites(categories) /\ files = <<>>

\* the run ended with an uncaught error (exit code 1, or 120 when the writes
\* of standard error fail) before project.hhp was written, and
\* not in the listing of line 242: the read, the creation of the site
\* directory or a write failed, and after a failing read or a failing
\* creation of the directory nothing is written
WriteFailed ==
    /\ pc = "exit"
    /\ exit_code \in {<<1>>, <<120>>}
    /\ in_path \in cwd_md
    /\ ProjectHhp \notin Range(writes)
    /\ ~CollectFailed

\* C17: a run whose write fails does not end with exit code 0 and leaves no
\* partial result: either the site, contents.hhc and project.hhp are all
\* written, or no output file is.  The code removes nothing when a write
\* fails: the files written before the failing one stay.
C17_AllOrNothing ==
    /\ WriteFailed => exit_code # <<0>>
    /\ exit_code = <<0>> => AllWritten
    /\ WriteFailed => writes = <<>>

-----------------------------------------------------------------------------
(* C18 *)

\* the first category or subcategory heading after line h, or the end of the
\* input
NextOwner(ks, h) ==
    LET later == {j \in (h + 1)..Len(ks) : ks[j] \in {"category", "subcategory"}}
    IN  IF later = {} THEN Len(ks) + 1 ELSE Min(later)

\* the group headings with a title that are read while the subcategory of the
\* heading at line h is current
HeadingsUnder(text, ks, h) ==
    Ascending({g \in (h + 1)..(NextOwner(ks, h) - 1) :
                  ks[g] = "group" /\ TitleOf(text[g]) # <<>>})

\* C18: in the returned tree the groups of a subcategory are exactly the
\* groups whose headings were read while it was current, that is after its
\* heading and before the next subcategory or category heading, in order; a
\* group heading read before the first subcategory heading, or after a
\* category heading and before the next subcategory heading, has no group in
\* the tree: it is not moved into the subcategory that follows.
C18_GroupsOfSubcategory ==
    pc = "parsed" =>
        LET ks == Kinds(lines)
            at == Ascending({i \in 1..Len(ks) : ks[i] = "subcategory"})
            subs == AllSubcategories(categories)
        IN  /\ Len(subs) = Len(at)
            /\ \A n \in 1..Len(subs) :
                  LET hs == HeadingsUnder(lines, ks, at[n])
                      gs == subs[n].groups
                  IN  /\ Len(gs) = Len(hs)
                      /\ \A k \in 1..Len(gs) :
                            /\ gs[k].title = _normalize_group_title(TitleOf(lines[hs[k]]))
                            /\ gs[k].entries = EntriesAfter(lines, ks, hs[k])

\* a group heading before the first subcategory heading is dropped, the group
\* read under the first subcategory stays there when the second subcategory
\* comes, and the entry after the second subcategory heading goes nowhere
C18_Witness ==
    /\ pc = "parsed"
    /\ lines = <<L_GRP, L_SUB, L_GRP, L_SUB, L_ENT>>
    /\ Len(categories) = 1
    /\ Len(categories[1].subcategories) = 2
    /\ categories[1].subcategories[1].groups = <<Group(<<"g", DOT_CN>>, <<>>)>>
    /\ categories[1].subcategories[2].groups = <<>>

-----------------------------------------------------------------------------
(* C19 *)

\* C19: after every line, and after the end of the input, the current
\* category is none or the last category of the list; the current subcategory
\* is none or the last subcategory of the current category, so a current
\* subcategory implies a current category; the pending entries are empty
\* whenever no group title is pending (the title is None or empty); and once
\* the list has a category the current category is not none.
C19_ParserState ==
    /\ cur_cat \in {0, Len(categories)}
    /\ cur_sub # NoSub =>
          /\ cur_cat # 0
          /\ categories[cur_cat].subcategories # <<>>
          /\ cur_sub = <<cur_cat, Len(categories[cur_cat].subcategories)>>
    /\ ~Truthy(cur_group_title) => cur_entries = <<>>
    /\ categories # <<>> => cur_cat # 0

\* the second category and its subcategory are current, a group is pending
\* with one entry
C19_Witness ==
    /\ pc = "parsing"
    /\ lines = <<L_CAT, L_CAT, L_SUB, L_GRP, L_ENT>>
    /\ cur_cat = 2
    /\ cur_sub = <<2, 1>>
    /\ cur_group_title = <<"g", "?">>
    /\ cur_entries = << <<"a">> >>

-----------------------------------------------------------------------------
(* C20 *)

\* the first category or subcategory heading of the input is a subcategory
\* heading
SubcategoryComesFirst(ks) ==
    LET owners == {i \in 1..Len(ks) : ks[i] \in {"category", "subcategory"}}
    IN  owners # {} /\ ks[Min(owners)] = "subcategory"

\* C20: the category list has at most one category titled Unclassified; it
\* has one exactly when the first category or subcategory heading read is a
\* subcategory heading, and then it is the first of the list; no category
\* heading of the source has that title, so every other category of the list
\* has the title of a category heading and a different one.
C20_OneUnclassified ==
    LET ks == Kinds(lines)
        synth == {i \in 1..Len(categories) : categories[i].title = Unclassified}
        heads == Ascending({i \in 1..Len(ks) : ks[i] = "category"})
    IN  /\ Cardinality(synth) <= 1
        /\ synth # {} <=> SubcategoryComesFirst(ks)
        /\ synth \subseteq {1}
        /\ \A k \in 1..Len(heads) : TitleOf(lines[heads[k]]) # Unclassified
        /\ Len(categories) = Len(heads) + Cardinality(synth)
        /\ \A k \in 1..Len(heads) :
              categories[k + Cardinality(synth)].title = TitleOf(lines[heads[k]])

\* after a subcategory heading without a category, a bold line with the title
\* Unclassified is a group heading: the tree has the one synthesized category,
\* and a group of that title
C20_Witness ==
    /\ pc = "parsed"
    /\ lines = <<L_SUB, L_GRP, L_SHOT, L_ENT, Bold(Unclassified), L_GRP, L_ENT>>
    /\ Len(categories) = 1
    /\ categories[1].title = Unclassified
    /\ Len(AllGroups(categories)) = 3
    /\ AllGroups(categories)[2].title = Unclassified

====
